---- MODULE Spec2Model ----
(***************************************************************************)
(* Human-in-the-loop supervisor: the help request registry                 *)
(* (modules/help_requests.py, app.py), the knowledge store and its vector  *)
(* index (modules/knowledge_base.py), the callback registry                *)
(* (persistent_callbacks.py) and the agent's webhook handler               *)
(* (modules/agent.py), as one state machine.                               *)
(*                                                                         *)
(* Conventions.  Python None is the string "None" for text fields and     *)
(* NoTime for timestamps.  Time is counted in minutes.  A database row is  *)
(* a record of the columns of database.HelpRequest; an object held in      *)
(* memory_help_requests is a record with a `kind`, because the code asks   *)
(* hasattr(obj, 'webhook_url'), which only a MockHelpRequest satisfies     *)
(* (database.HelpRequest declares no webhook_url column).                  *)
(***************************************************************************)
EXTENDS Integers, Sequences, FiniteSets, TLC

\* ------------------------------------------------------------------ bounds
NumDbRows == 1          \* help_requests rows present when the process starts
MaxMock == 1            \* MockHelpRequest objects ever created
MaxTime == 31           \* the clock stops here
DeliveryRows == 1       \* rows at the start, in the delivery specification
DeliveryMocks == 1      \* MockHelpRequest objects, in the delivery specification
MaxSweepTime == 65      \* the clock stops here, in the sweep specification
MaxItems == 2           \* knowledge items, in the knowledge specification
MaxPushed == 1          \* replies pushed into sessions that are recorded

\* --------------------------------------------------------- program constants
REQUEST_TIMEOUT_MINUTES == 30
NoTime == -1
\* scores are hundredths: 1.0 is 100
SEMANTIC_SEARCH_TOP_K == 3
SEMANTIC_SCORE_THRESHOLD == 70
KEYWORD_SCORE_THRESHOLD == 85
FINAL_RESULT_THRESHOLD == 65
\* Retry(total=3): retries after the first attempt
RETRY_TOTAL == 3

None == "None"
Answers == {"$30", "$35"}
\* what request.form.get('answer') can be: a real answer or blanks
FormAnswers == Answers \cup {" "}
\* Question texts, by number.  Text 3 is text 1 in another letter case and
\* text 4 is text 1 with one more word.
Questions == {1, 2}
QuestionWords == <<{"price", "haircut"}, {"walk", "ins"},
                   {"price", "haircut"}, {"price", "mens", "haircut"}>>
CaseFolded == <<1, 2, 1, 4>>
AGENT_WEBHOOK_URL == "http://localhost:5001/webhook/resolved"

VARIABLES
    now,                      \* datetime.utcnow(), minutes
    db,                       \* committed rows of table help_requests, by id
    memory_help_requests,     \* modules.help_requests.memory_help_requests
    next_request_id,          \* modules.help_requests.next_request_id
    timed_out_requests,       \* the sweep's query result while it is running
    sweep_pc,                 \* "idle" or "loaded": position of the sweep job
    kb_db,                    \* committed rows of table knowledge_base (index = id)
    memory_knowledge_items,   \* modules.knowledge_base.memory_knowledge_items
    faiss_index,              \* [present, vecs]: the module-global index
    knowledge_item_ids_for_faiss,
    index_file,               \* instance/knowledge_base.index on disk
    callbacks_map,            \* CallbackRegistry.callbacks_map
    callbacks_file,           \* callback_registry.json on disk
    peer_callbacks_map,       \* callbacks_map of a second agent process
    rebuilds,                 \* per request thread: where its index rebuild stands
    active_livekit_sessions,  \* agent ids with a live AgentSession
    pushed,                   \* replies generated into sessions, oldest first
    resp                      \* what the last operation returned and did

vars == <<now, db, memory_help_requests, next_request_id, timed_out_requests,
          sweep_pc, kb_db, memory_knowledge_items, faiss_index,
          knowledge_item_ids_for_faiss, index_file, callbacks_map,
          callbacks_file, peer_callbacks_map, rebuilds, active_livekit_sessions, pushed, resp>>

\* ------------------------------------------------------------------ helpers
Min(S) == CHOOSE x \in S : \A y \in S : x <= y
Max(S) == CHOOSE x \in S : \A y \in S : x >= y

RECURSIVE SortedSeq(_)
SortedSeq(S) == IF S = {} THEN <<>> ELSE <<Min(S)>> \o SortedSeq(S \ {Min(S)})

NoIndex == [present |-> FALSE, vecs |-> <<>>]

\* The state the operations read and write, as one record.
World == [db |-> db, mem |-> memory_help_requests, next |-> next_request_id,
          kb |-> kb_db, memkb |-> memory_knowledge_items,
          index |-> faiss_index, ids |-> knowledge_item_ids_for_faiss,
          file |-> index_file, map |-> callbacks_map, mapfile |-> callbacks_file,
          pushed |-> pushed, upserts |-> 0, posts |-> <<>>]

Commit(W) ==
    /\ db' = W.db
    /\ memory_help_requests' = W.mem
    /\ next_request_id' = W.next
    /\ kb_db' = W.kb
    /\ memory_knowledge_items' = W.memkb
    /\ faiss_index' = W.index
    /\ knowledge_item_ids_for_faiss' = W.ids
    /\ index_file' = W.file
    /\ callbacks_map' = W.map
    /\ callbacks_file' = W.mapfile
    /\ pushed' = W.pushed

\* ---------------------------------------------------------- knowledge store
\* _get_all_knowledge_items_for_indexing: (id, question) pairs in id order,
\* from the table when there is an app context and the query works, else
\* from memory_knowledge_items.
GetAllKnowledgeItemsForIndexing(W, ctx, f) ==
    IF ctx /\ "kb" \notin f
    THEN [i \in 1..Len(W.kb) |-> [id |-> i, question |-> W.kb[i].question]]
    ELSE LET s == SortedSeq(DOMAIN W.memkb)
         IN  [i \in 1..Len(s) |-> [id |-> s[i], question |-> W.memkb[s[i]].question]]

\* build_or_load_faiss_index(force_rebuild=True)
RebuildIndex(W, ctx, f) ==
    LET items == GetAllKnowledgeItemsForIndexing(W, ctx, f)
    IN  IF items = <<>>
        THEN [W EXCEPT !.index = NoIndex, !.ids = <<>>, !.file = NoIndex]
        ELSE IF "embed" \in f
        THEN [W EXCEPT !.index = NoIndex, !.ids = <<>>]
        ELSE IF "write" \in f
        THEN [W EXCEPT !.index = NoIndex, !.ids = <<>>]
        ELSE LET built == [present |-> TRUE,
                           vecs |-> [i \in 1..Len(items) |-> items[i].question]]
             IN  [W EXCEPT !.index = built,
                           !.ids = [i \in 1..Len(items) |-> items[i].id],
                           !.file = built]

\* the in-memory branch of add_to_knowledge_base (lines 266-282)
AddToMemoryKnowledge(W, q, a) ==
    LET hits == {i \in DOMAIN W.memkb : W.memkb[i].question = q}
        new_id == IF DOMAIN W.memkb = {} THEN 1 ELSE Max(DOMAIN W.memkb) + 1
    IN  IF hits # {}
        THEN [W EXCEPT !.memkb[Min(hits)].answer = a]
        ELSE [W EXCEPT !.memkb = [i \in DOMAIN W.memkb \cup {new_id} |->
                 IF i = new_id THEN [question |-> q, answer |-> a] ELSE W.memkb[i]]]

\* the database branch of add_to_knowledge_base (lines 244-260)
AddToDbKnowledge(W, q, a) ==
    LET hits == {i \in 1..Len(W.kb) : W.kb[i].question = q}
        id == IF hits # {} THEN Min(hits) ELSE Len(W.kb) + 1
        table == IF hits # {}
                 THEN [W.kb EXCEPT ![id].answer = a]
                 ELSE Append(W.kb, [question |-> q, answer |-> a])
    IN  [W EXCEPT !.kb = table,
                  !.memkb = [i \in DOMAIN W.memkb \cup {id} |->
                                IF i = id THEN table[id] ELSE W.memkb[i]]]

\* add_to_knowledge_base(question, answer): upsert, then rebuild the index
add_to_knowledge_base(W, q, a, ctx, f) ==
    LET stored == IF ctx /\ "kb" \notin f
                  THEN AddToDbKnowledge(W, q, a)
                  ELSE AddToMemoryKnowledge(W, q, a)
    IN  RebuildIndex([stored EXCEPT !.upserts = @ + 1], ctx, f)


\* build_or_load_faiss_index (lines 83-88): the index file exists, read_index
\* reads it and it holds as many vectors as there are items to index
IndexFileUsable(W, ctx, f) ==
    /\ W.file.present
    /\ "load" \notin f
    /\ Len(W.file.vecs) = Len(GetAllKnowledgeItemsForIndexing(W, ctx, f))

\* a load that takes the vectors of the file and leaves the id list empty
build_or_load_faiss_index_KeepsNoIds(W, ctx, f) ==
    IF IndexFileUsable(W, ctx, f)
    THEN [W EXCEPT !.index = W.file, !.ids = <<>>]
    ELSE RebuildIndex(W, ctx, f)

\* build_or_load_faiss_index(force_rebuild=False): the vectors of the file
\* with the ids of the current items, or a rebuild when the file is missing,
\* unreadable or of another size
build_or_load_faiss_index(W, ctx, f) ==
    LET items == GetAllKnowledgeItemsForIndexing(W, ctx, f)
    IN  IF IndexFileUsable(W, ctx, f)
        THEN [W EXCEPT !.index = W.file,
                       !.ids = [i \in 1..Len(items) |-> items[i].id]]
        ELSE RebuildIndex(W, ctx, f)

\* ------------------------------------------------- callback registry, agent
\* an assignment that keeps the value a key already has
Put_KeepsFirst(fn, k, v) ==
    [i \in DOMAIN fn \cup {k} |-> IF i \in DOMAIN fn THEN fn[i] ELSE v]

\* d[k] = v
Put(fn, k, v) == [i \in DOMAIN fn \cup {k} |-> IF i = k THEN v ELSE fn[i]]
Drop(fn, k) == [i \in DOMAIN fn \ {k} |-> fn[i]]

\* CallbackRegistry.save_to_disk: the whole map is dumped; an error is logged
SaveToDisk(W, f) == IF "save" \in f THEN W ELSE [W EXCEPT !.mapfile = W.map]

\* CallbackRegistry.load_from_disk into the empty map of __init__: the file's
\* content, or nothing when the file is absent or cannot be read
LoadFromDisk(file, f) == IF "load" \in f THEN <<>> ELSE file

\* CallbackRegistry.register
RegistryRegister(W, id, session_id, f) ==
    SaveToDisk([W EXCEPT !.map = Put(W.map, id, session_id)], f)

\* CallbackRegistry.remove
RegistryRemove(W, id, f) ==
    IF id \in DOMAIN W.map THEN SaveToDisk([W EXCEPT !.map = Drop(W.map, id)], f)
    ELSE W

\* a lookup that answers with the binding of the highest registered id
GetSessionForRequest_AnyBinding(W, id) ==
    IF DOMAIN W.map # {} THEN W.map[Max(DOMAIN W.map)] ELSE None

\* CallbackRegistry.get_session_for_request
GetSessionForRequest(W, id) == IF id \in DOMAIN W.map THEN W.map[id] ELSE None

\* a handler that drops the binding before it generates the reply
HandleResolvedWebhook_RemovesFirst(W, id, answer, reply, f) ==
    LET agent_id == GetSessionForRequest(W, id) IN
    IF answer \in {None, ""}
    THEN [w |-> W, code |-> 400]
    ELSE IF agent_id = None
    THEN [w |-> W, code |-> 404]
    ELSE IF agent_id \notin active_livekit_sessions
    THEN [w |-> W, code |-> 404]
    ELSE IF reply = "raises"
    THEN [w |-> RegistryRemove(W, id, f), code |-> 500]
    ELSE [w |-> RegistryRemove(
                  [W EXCEPT !.pushed = Append(@, [session |-> agent_id,
                                                  request_id |-> id,
                                                  answer |-> answer])], id, f),
          code |-> 200]

\* SalonAgent._handle_resolved_webhook_http: the HTTP status it answers with,
\* and the state it leaves.  reply is what generate_reply does: "ok" or "raises".
HandleResolvedWebhook(W, id, answer, reply, f) ==
    LET agent_id == GetSessionForRequest(W, id) IN
    IF answer \in {None, ""}
    THEN [w |-> W, code |-> 400]
    ELSE IF agent_id = None
    THEN [w |-> W, code |-> 404]
    ELSE IF agent_id \notin active_livekit_sessions
    THEN [w |-> W, code |-> 404]
    ELSE IF reply = "raises"
    THEN [w |-> W, code |-> 500]
    ELSE [w |-> RegistryRemove(
                  [W EXCEPT !.pushed = Append(@, [session |-> agent_id,
                                                  request_id |-> id,
                                                  answer |-> answer])], id, f),
          code |-> 200]

\* a sender that posts once more after an answer other than 200
SendWebhook_ResendsOnError(W, id, answer, net, reply, f) ==
    IF net = "down"
    THEN [W EXCEPT !.posts = @ \o [i \in 1..(RETRY_TOTAL + 1) |-> 0]]
    ELSE LET r == HandleResolvedWebhook(W, id, answer, reply, f)
             r2 == HandleResolvedWebhook(r.w, id, answer, reply, f)
         IN  IF r.code = 200
             THEN [r.w EXCEPT !.posts = Append(@, r.code)]
             ELSE [r2.w EXCEPT !.posts = @ \o <<r.code, r2.code>>]

\* The webhook POST of resolve_request (lines 111-124 and 145-158), through a
\* session whose adapter has Retry(total=3, status_forcelist=[502, 503, 504]).
\* A connection that does not open (net = "down", recorded as 0) is tried
\* again RETRY_TOTAL times after the first attempt.  An answer of the agent's
\* handler is final: 400, 404 and 500 are not in the status list, and POST is
\* not a method Retry re-sends on a status.
SendWebhook(W, id, answer, net, reply, f) ==
    IF net = "down"
    THEN [W EXCEPT !.posts = @ \o [i \in 1..(RETRY_TOTAL + 1) |-> 0]]
    ELSE LET r == HandleResolvedWebhook(W, id, answer, reply, f)
         IN  [r.w EXCEPT !.posts = Append(@, r.code)]

\* ------------------------------------------------------ help request registry
Row(q, t) == [question |-> q, status |-> "pending", answer |-> None,
              created_at |-> t, resolved_at |-> NoTime]

\* a database.HelpRequest object held in memory: a copy of the row, no webhook_url
MirrorOf(id, row) ==
    [kind |-> "HelpRequest", id |-> id, question |-> row.question,
     status |-> row.status, answer |-> row.answer, created_at |-> row.created_at,
     resolved_at |-> row.resolved_at, webhook_url |-> None]

\* MockHelpRequest.__init__ outside a Flask context
MockHelpRequest(id, q, url, t) ==
    [kind |-> "MockHelpRequest", id |-> id, question |-> q, status |-> "pending",
     answer |-> None, created_at |-> t, resolved_at |-> NoTime, webhook_url |-> url]

\* the assignments without the one to resolved_at
SetResolved_NoTimestamp(obj, answer, t) ==
    [obj EXCEPT !.status = "resolved", !.answer = answer]

\* the three assignments of resolve_request (lines 99-101 and 135-138)
SetResolved(obj, answer, t) ==
    [obj EXCEPT !.status = "resolved", !.answer = answer, !.resolved_at = t]

SetUnresolved(obj) == [obj EXCEPT !.status = "unresolved"]

\* get_help_request: where the returned object lives, "db", "memory" or "none"
get_help_request(W, id, ctx, f) ==
    IF ctx /\ "get" \notin f
    THEN (IF id \in DOMAIN W.db THEN "db" ELSE "none")
    ELSE (IF id \in DOMAIN W.mem THEN "memory" ELSE "none")

\* create_help_request.  With an app context the HelpRequest constructor is
\* given webhook_url, which is no column of the model: it raises, the except
\* branch rolls back, and the MockHelpRequest made next gets no id.
create_help_request(W, q, url, ctx, t) ==
    IF ctx
    THEN [w |-> W, ret |-> "none", id |-> 0]
    ELSE [w |-> [W EXCEPT !.mem = Put(W.mem, W.next, MockHelpRequest(W.next, q, url, t)),
                          !.next = @ + 1],
          ret |-> "memory", id |-> W.next]

\* a fallback that stores a resolved object for an id it does not know
ResolveInMemory_Creates(W, id, answer, ctx, f, t, net, reply) ==
    IF id \notin DOMAIN W.mem
    THEN [w |-> [W EXCEPT !.mem = Put(W.mem, id,
                    SetResolved(MockHelpRequest(id, 1, None, t), answer, t))],
          ret |-> "memory"]
    ELSE LET W1 == [W EXCEPT !.mem[id] = SetResolved(@, answer, t)]
             W2 == add_to_knowledge_base(W1, W1.mem[id].question, answer, ctx, f)
             W3 == IF W2.mem[id].kind = "MockHelpRequest" /\ W2.mem[id].webhook_url # None
                   THEN SendWebhook(W2, id, answer, net, reply, f)
                   ELSE W2
         IN  [w |-> W3, ret |-> "memory"]

\* the memory fallback of resolve_request (lines 131-165)
ResolveInMemory(W, id, answer, ctx, f, t, net, reply) ==
    IF id \notin DOMAIN W.mem
    THEN [w |-> W, ret |-> "none"]
    ELSE LET W1 == [W EXCEPT !.mem[id] = SetResolved(@, answer, t)]
             W2 == add_to_knowledge_base(W1, W1.mem[id].question, answer, ctx, f)
             W3 == IF W2.mem[id].kind = "MockHelpRequest" /\ W2.mem[id].webhook_url # None
                   THEN SendWebhook(W2, id, answer, net, reply, f)
                   ELSE W2
         IN  [w |-> W3, ret |-> "memory"]

\* resolve_request(request_id, answer)
resolve_request(W, id, answer, ctx, f, t, net, reply) ==
    LET got == IF ctx THEN get_help_request(W, id, TRUE, f) ELSE "none" IN
    IF got = "db"
    THEN IF "commit" \in f
         THEN \* commit raises: rollback, then the memory fallback
              ResolveInMemory(W, id, answer, ctx, f, t, net, reply)
         ELSE LET W1 == [W EXCEPT !.db[id] = SetResolved(@, answer, t)]
                  W2 == add_to_knowledge_base(W1, W1.db[id].question, answer, ctx, f)
              IN  \* help_request_db.webhook_url: no such attribute, the except
                  \* branch is taken after the commit and falls through
                  ResolveInMemory(W2, id, answer, ctx, f, t, net, reply)
    ELSE IF got = "memory"
    THEN \* get_help_request fell back to the object in memory
         LET W1 == [W EXCEPT !.mem[id] = SetResolved(@, answer, t)]
             W2 == add_to_knowledge_base(W1, W1.mem[id].question, answer, ctx, f)
         IN  IF W2.mem[id].kind = "MockHelpRequest"
             THEN [w |-> IF W2.mem[id].webhook_url # None
                         THEN SendWebhook(W2, id, answer, net, reply, f)
                         ELSE W2,
                   ret |-> "memory"]
             ELSE ResolveInMemory(W2, id, answer, ctx, f, t, net, reply)
    ELSE ResolveInMemory(W, id, answer, ctx, f, t, net, reply)

\* request.form validation of the /resolve route (app.py 227-229)
AnswerIsValid(answer) == answer \notin {None, "", " "}

\* POST /resolve/<id> (ctx) or a direct call of resolve_request (no ctx)
ResolveOutcome(W, id, answer, ctx, f, t, net, reply) ==
    IF ~AnswerIsValid(answer)
    THEN [w |-> W, ret |-> "none", code |-> 400]
    ELSE LET r == resolve_request(W, id, answer, ctx, f, t, net, reply)
         IN  [w |-> r.w, ret |-> r.ret, code |-> IF r.ret = "none" THEN 404 ELSE 200]

\* a marking that also writes the request's question into the knowledge store
mark_request_unresolved_Upserts(W, id, ctx, f) ==
    IF ctx /\ "get" \notin f /\ id \in DOMAIN W.db /\ "commit" \notin f
    THEN [w |-> add_to_knowledge_base([W EXCEPT !.db[id] = SetUnresolved(@)],
                                      W.db[id].question, "unresolved", ctx, f),
          ret |-> "db"]
    ELSE IF id \in DOMAIN W.mem
    THEN [w |-> [W EXCEPT !.mem[id] = SetUnresolved(@)], ret |-> "memory"]
    ELSE [w |-> W, ret |-> "none"]

\* mark_request_unresolved(request_id)
mark_request_unresolved(W, id, ctx, f) ==
    IF ctx /\ "get" \notin f /\ id \in DOMAIN W.db /\ "commit" \notin f
    THEN [w |-> [W EXCEPT !.db[id] = SetUnresolved(@)], ret |-> "db"]
    ELSE IF id \in DOMAIN W.mem
    THEN [w |-> [W EXCEPT !.mem[id] = SetUnresolved(@)], ret |-> "memory"]
    ELSE [w |-> W, ret |-> "none"]

\* the query of check_request_timeouts_job (lines 130-137)
TimedOut(W, t) ==
    {id \in DOMAIN W.db : /\ W.db[id].status = "pending"
                          /\ W.db[id].created_at < t - REQUEST_TIMEOUT_MINUTES}

\* the loop and commit of check_request_timeouts_job (lines 143-156)
SweepWrite(W, ids, f) ==
    LET mem2 == [i \in DOMAIN W.mem |->
                    IF i \in ids THEN SetUnresolved(W.mem[i]) ELSE W.mem[i]]
        db2 == [i \in DOMAIN W.db |->
                    IF i \in ids THEN SetUnresolved(W.db[i]) ELSE W.db[i]]
    IN  IF "commit" \in f
        THEN [W EXCEPT !.mem = mem2]
        ELSE [W EXCEPT !.mem = mem2, !.db = db2]


\* ------------------------------------------------------- application start
\* sync_memory_storage_from_db (app.py 98-119) in a process that has just
\* started: both dictionaries are filled from the tables; a query that raises
\* ("get" for help_requests, "kb" for knowledge_base) ends the function with
\* what was filled so far.  memory_next_hr_id is a name of app.py, so the
\* counter of modules.help_requests stays 1.
sync_memory_storage_from_db(W, f) ==
    LET requests == [i \in 1..Len(W.db) |-> MirrorOf(i, W.db[i])]
        items == [i \in 1..Len(W.kb) |-> W.kb[i]]
    IN  IF "get" \in f THEN W
        ELSE IF "kb" \in f THEN [W EXCEPT !.mem = requests]
        ELSE [W EXCEPT !.mem = requests, !.memkb = items]

\* create_app (app.py 55-70) in a new process: the module globals are at
\* their initial values, the tables and the index file are what the last
\* process left; get_embedding_model raising ("embed") skips the index
create_app(W, f) ==
    LET fresh == [W EXCEPT !.mem = <<>>, !.next = 1, !.memkb = <<>>,
                           !.index = NoIndex, !.ids = <<>>]
        synced == sync_memory_storage_from_db(fresh, f)
    IN  IF "embed" \in f THEN synced
        ELSE build_or_load_faiss_index(synced, TRUE, f)

\* ------------------------------------------------------------- hybrid query
\* str.lower() of a question text, and the set of its lower-cased words
Lower(q) == CaseFolded[q]
Words(q) == QuestionWords[q]

\* The similarity 1 / (1 + distance) of two embedded texts.  The model
\* lower-cases its input, so texts equal up to case are at distance 0; for
\* other pairs the score grows with the shared words.
SemanticScore(a, b) ==
    IF Lower(a) = Lower(b) THEN 100
    ELSE (100 * Cardinality(Words(a) \cap Words(b))) \div
         (Cardinality(Words(a) \cup Words(b)) + 1) + 40

\* sorted(seq, key=..., reverse=True) is stable: an element goes after the
\* elements whose key is at least its own.  Elements are [key, val] pairs.
RECURSIVE InsertByKey(_, _)
InsertByKey(sorted, x) ==
    IF sorted = <<>> THEN <<x>>
    ELSE IF Head(sorted).key >= x.key
    THEN <<Head(sorted)>> \o InsertByKey(Tail(sorted), x)
    ELSE <<x>> \o sorted

RECURSIVE SortPairsDesc(_)
SortPairsDesc(seq) ==
    IF seq = <<>> THEN <<>>
    ELSE InsertByKey(SortPairsDesc(SubSeq(seq, 1, Len(seq) - 1)), seq[Len(seq)])

ScoreOf(m) == m.score
RankOf(m) == (IF m.match_type = "exact_keyword" THEN 1000 ELSE 0) + m.score

\* sorted(..., key=lambda x: x['score'], reverse=True)
SortByScore(seq) ==
    LET sorted == SortPairsDesc([i \in 1..Len(seq) |-> [key |-> ScoreOf(seq[i]), val |-> seq[i]]])
    IN  [i \in 1..Len(sorted) |-> sorted[i].val]

\* sorted(..., key=lambda x: (exact first, score), reverse=True)
SortByRank(seq) ==
    LET sorted == SortPairsDesc([i \in 1..Len(seq) |-> [key |-> RankOf(seq[i]), val |-> seq[i]]])
    IN  [i \in 1..Len(sorted) |-> sorted[i].val]

\* the index search of search_knowledge_semantic (lines 175-195): the top_k
\* nearest vectors, those whose position has an id, best score first
NearestItems(W, q, top_k) ==
    LET hits == [i \in 1..Len(W.index.vecs) |->
                    [pos |-> i, score |-> SemanticScore(q, W.index.vecs[i])]]
        nearest == SubSeq(SortByScore(hits), 1,
                          IF Len(hits) < top_k THEN Len(hits) ELSE top_k)
        InRange(h) == h.pos <= Len(W.ids)
        kept == SelectSeq(nearest, InRange)
    IN  [i \in 1..Len(kept) |->
            [id |-> W.ids[kept[i].pos], score |-> kept[i].score,
             match_type |-> "semantic"]]

\* a search that carries on after the embedding or the index search failed
search_knowledge_semantic_IgnoresFailure(W, q, top_k, f) ==
    IF ~W.index.present \/ Len(W.index.vecs) = 0
    THEN <<>>
    ELSE NearestItems(W, q, top_k)

\* search_knowledge_semantic(question_text, top_k): empty when there is no
\* index, when generate_embedding returns None ("embed") and when the index
\* search raises ("search")
search_knowledge_semantic(W, q, top_k, f) ==
    IF ~W.index.present \/ Len(W.index.vecs) = 0
    THEN <<>>
    ELSE IF "embed" \in f \/ "search" \in f
    THEN <<>>
    ELSE NearestItems(W, q, top_k)

\* the candidate lists of api_knowledge_query (lines 376-410)
SemanticMatches(W, q, f) ==
    LET raw == search_knowledge_semantic(W, q, SEMANTIC_SEARCH_TOP_K, f)
        Keep(m) == m.score >= SEMANTIC_SCORE_THRESHOLD /\ m.id \in 1..Len(W.kb)
    IN  SelectSeq(raw, Keep)

KeywordMatches(W, q) ==
    LET exact == {i \in 1..Len(W.kb) : Lower(W.kb[i].question) = Lower(q)}
        all == [i \in 1..Len(W.kb) |->
                  [id |-> i,
                   score |-> (100 * Cardinality(Words(q) \cap Words(W.kb[i].question)))
                             \div Cardinality(Words(q) \cup Words(W.kb[i].question)),
                   match_type |-> "keyword_overlap"]]
        Keep(m) == m.score >= KEYWORD_SCORE_THRESHOLD
    IN  IF exact # {}
        THEN <<[id |-> Min(exact), score |-> 100, match_type |-> "exact_keyword"]>>
        ELSE SortByScore(SelectSeq(all, Keep))

\* a merge that keeps the candidate an id got first
RECURSIVE MergeCandidates_KeepsFirst(_, _)
MergeCandidates_KeepsFirst(final, rest) ==
    IF rest = <<>> THEN final
    ELSE LET res == Head(rest)
             at == {i \in 1..Len(final) : final[i].id = res.id}
         IN  IF at = {}
             THEN MergeCandidates_KeepsFirst(Append(final, res), Tail(rest))
             ELSE MergeCandidates_KeepsFirst(final, Tail(rest))

\* the merge loop of api_knowledge_query (lines 412-422): candidates in
\* first-insertion order, one per id
RECURSIVE MergeCandidates(_, _)
MergeCandidates(final, rest) ==
    IF rest = <<>> THEN final
    ELSE LET res == Head(rest)
             at == {i \in 1..Len(final) : final[i].id = res.id}
         IN  IF at = {}
             THEN MergeCandidates(Append(final, res), Tail(rest))
             ELSE LET i == Min(at)
                  IN  IF res.match_type = "exact_keyword"
                         \/ (final[i].match_type # "exact_keyword" /\ res.score > final[i].score)
                      THEN MergeCandidates([final EXCEPT ![i] = res], Tail(rest))
                      ELSE MergeCandidates(final, Tail(rest))

NotFound(score) == [found |-> FALSE, id |-> 0, answer |-> None, score |-> score,
                    match_type |-> None]

\* a query that answers with the candidate ranked last
api_knowledge_query_LastRanked(W, q, f) ==
    LET final == MergeCandidates(<<>>, KeywordMatches(W, q) \o SemanticMatches(W, q, f))
        ranked == SortByRank(final)
        best == ranked[Len(ranked)]
    IN  IF final = <<>> THEN NotFound(0)
        ELSE IF best.score >= FINAL_RESULT_THRESHOLD
        THEN [found |-> TRUE, id |-> best.id, answer |-> W.kb[best.id].answer,
              score |-> best.score, match_type |-> best.match_type]
        ELSE NotFound(best.score)

\* api_knowledge_query: POST /api/knowledge/query
api_knowledge_query(W, q, f) ==
    LET final == MergeCandidates(<<>>, KeywordMatches(W, q) \o SemanticMatches(W, q, f))
        ranked == SortByRank(final)
        best == ranked[1]
    IN  IF final = <<>> THEN NotFound(0)
        ELSE IF best.score >= FINAL_RESULT_THRESHOLD
        THEN [found |-> TRUE, id |-> best.id, answer |-> W.kb[best.id].answer,
              score |-> best.score, match_type |-> best.match_type]
        ELSE NotFound(best.score)

\* POST /api/sync-request (app.py 314-341): the HelpRequest constructor is
\* given webhook_url, which is no column of the model, so the route's except
\* branch answers 500 and nothing is stored
api_sync_request(W, q, url) == [w |-> W, code |-> 500, id |-> 0]

\* a lookup that trusts the answer of a call that failed
get_knowledge_for_question_OnError(W, q, net, f) ==
    LET r == api_knowledge_query(W, q, {}) IN
    IF r.found THEN r ELSE NotFound(0)

\* get_knowledge_for_question: the item found, or nothing when the call times
\* out or fails, the route answers 500 ("kb": its table query raises), or
\* the answer is not found
get_knowledge_for_question(W, q, net, f) ==
    LET r == api_knowledge_query(W, q, f) IN
    IF net # "ok" \/ "kb" \in f THEN NotFound(0)
    ELSE IF r.found THEN r
    ELSE NotFound(0)

\* SalonAgent.request_help: what the tool returns to the conversation, the
\* POSTs to /api/sync-request it made, and the state it leaves
request_help(W, q, session_id, knet, snet, f) ==
    LET k == get_knowledge_for_question(W, q, knet, f)
        sync == api_sync_request(W, q, AGENT_WEBHOOK_URL)
    IN  IF k.found
        THEN [w |-> W, ret |-> "found", answer |-> k.answer, sync |-> <<>>]
        ELSE IF snet = "down"
        THEN [w |-> W, ret |-> "trouble", answer |-> None, sync |-> <<0>>]
        ELSE IF sync.code \notin {200, 201}
        THEN [w |-> sync.w, ret |-> "trouble", answer |-> None, sync |-> <<sync.code>>]
        ELSE IF sync.id = 0
        THEN [w |-> sync.w, ret |-> "issue", answer |-> None, sync |-> <<sync.code>>]
        ELSE [w |-> RegistryRegister(sync.w, sync.id, session_id, f),
              ret |-> "checking", answer |-> None, sync |-> <<sync.code>>]

\* ------------------------------------------------------------------ inputs
RequestIds(n) == 1..(n + 1)           \* one id more than the table holds
Sessions == {"agentA", "agentB"}      \* SalonAgent.agent_instance_id values
WebhookUrls == {None, AGENT_WEBHOOK_URL}
\* which step of the call fails: a database call (get, commit), the knowledge
\* table (kb), the embedding model (embed), the index search (search), writing
\* the index file (write), writing callback_registry.json (save), reading it
\* (load)
DbFailures == {{}, {"get"}, {"commit"}, {"kb"}}
IndexFailures == {{"embed"}, {"write"}}
SaveFailures == {{}, {"save"}}
LoadFailures == {{}, {"load"}}
QueryFailures == {{}, {"embed"}, {"search"}}
Failures == DbFailures \cup IndexFailures

Response(op, id, code, ret, W) ==
    [op |-> op, id |-> id, code |-> code, ret |-> ret,
     upserts |-> W.upserts, posts |-> W.posts]

\* request threads of the supervisor process that write knowledge items
Writers == {1, 2}
\* a thread that is not inside build_or_load_faiss_index
NotBuilding == [pc |-> "idle", items |-> <<>>]

\* -------------------------------------------------------------------- state
\* The state after create_app: n <= rows rows already in help_requests (the
\* table outlives the process), all pending and created at time 0;
\* sync_memory_storage_from_db has copied them into memory, or its query
\* raised and memory is empty; the knowledge table is empty.
InitWith(rows) ==
    /\ now = 0
    /\ \E n \in 0..rows :
         /\ db = [i \in 1..n |-> Row(((i - 1) % Cardinality(Questions)) + 1, 0)]
         /\ \/ memory_help_requests = [i \in 1..n |-> MirrorOf(i, db[i])]
            \/ memory_help_requests = <<>>
    /\ next_request_id = 1
    /\ timed_out_requests = {}
    /\ sweep_pc = "idle"
    /\ kb_db = <<>>
    /\ memory_knowledge_items = <<>>
    /\ faiss_index = NoIndex
    /\ knowledge_item_ids_for_faiss = <<>>
    /\ index_file = NoIndex
    /\ callbacks_map = <<>>
    /\ callbacks_file = <<>>
    /\ peer_callbacks_map = <<>>
    /\ rebuilds = [w \in Writers |-> NotBuilding]
    /\ active_livekit_sessions = {}
    /\ pushed = <<>>
    /\ resp = [op |-> "start", id |-> 0, code |-> 0, ret |-> "none",
               upserts |-> 0, posts |-> <<>>]

\* ------------------------------------------------------------------ actions
Tick(steps, limit) ==
    /\ \E d \in steps : now + d <= limit /\ now' = now + d
    /\ UNCHANGED <<db, memory_help_requests, next_request_id, timed_out_requests,
                   sweep_pc, kb_db, memory_knowledge_items, faiss_index,
                   knowledge_item_ids_for_faiss, index_file, callbacks_map,
                   callbacks_file, peer_callbacks_map, rebuilds, active_livekit_sessions, pushed, resp>>

Create(q, url, ctx, limit) ==
    LET r == create_help_request(World, q, url, ctx, now) IN
    /\ next_request_id <= limit
    /\ Commit(r.w)
    /\ resp' = Response("create", r.id, IF r.ret = "none" THEN 500 ELSE 201, r.ret, r.w)
    /\ UNCHANGED <<now, timed_out_requests, sweep_pc, active_livekit_sessions, peer_callbacks_map, rebuilds>>

\* POST /resolve/<id> when ctx, a direct resolve_request call otherwise (the
\* caller of the function passes a non-empty answer; without an app context no
\* database call is made, so none can fail)
Resolve(id, answer, ctx, f, net, reply) ==
    LET r == ResolveOutcome(World, id, answer, ctx, f, now, net, reply) IN
    /\ ctx \/ (AnswerIsValid(answer) /\ f \cap {"get", "commit", "kb"} = {})
    /\ Len(r.w.pushed) <= MaxPushed
    /\ Commit(r.w)
    /\ resp' = Response("resolve", id, r.code, r.ret, r.w)
    /\ UNCHANGED <<now, timed_out_requests, sweep_pc, active_livekit_sessions, peer_callbacks_map, rebuilds>>

\* POST /unresolved/<id> when ctx, a direct mark_request_unresolved call otherwise
MarkUnresolved(id, ctx, f) ==
    LET r == mark_request_unresolved(World, id, ctx, f) IN
    /\ ctx \/ f = {}
    /\ Commit(r.w)
    /\ resp' = Response("unresolved", id, IF r.ret = "none" THEN 404 ELSE 200, r.ret, r.w)
    /\ UNCHANGED <<now, timed_out_requests, sweep_pc, active_livekit_sessions, peer_callbacks_map, rebuilds>>

\* check_request_timeouts_job up to its query; the job returns at once when
\* the query raises or finds nothing
SweepQuery(f) ==
    /\ sweep_pc = "idle"
    /\ IF "get" \in f \/ TimedOut(World, now) = {}
       THEN UNCHANGED <<timed_out_requests, sweep_pc>>
       ELSE timed_out_requests' = TimedOut(World, now) /\ sweep_pc' = "loaded"
    /\ resp' = Response("sweep_query", 0, IF "get" \in f THEN 500 ELSE 200, "none", World)
    /\ UNCHANGED <<now, db, memory_help_requests, next_request_id, kb_db,
                   memory_knowledge_items, faiss_index, knowledge_item_ids_for_faiss,
                   index_file, callbacks_map, callbacks_file, peer_callbacks_map, rebuilds,
                   active_livekit_sessions, pushed>>

\* the rest of check_request_timeouts_job: the loop, then commit or rollback
SweepCommit(f) ==
    LET W == SweepWrite(World, timed_out_requests, f) IN
    /\ sweep_pc = "loaded"
    /\ Commit(W)
    /\ timed_out_requests' = {}
    /\ sweep_pc' = "idle"
    /\ resp' = Response("sweep_commit", 0, IF "commit" \in f THEN 500 ELSE 200, "none", W)
    /\ UNCHANGED <<now, active_livekit_sessions, peer_callbacks_map, rebuilds>>

\* callback_registry.register(request_id, agent_instance_id)
Register(id, session_id, f) ==
    LET W == RegistryRegister(World, id, session_id, f) IN
    /\ Commit(W)
    /\ resp' = Response("register", id, 200, "none", W)
    /\ UNCHANGED <<now, timed_out_requests, sweep_pc, active_livekit_sessions, peer_callbacks_map, rebuilds>>

\* SalonAgent.register_livekit_session / unregister_livekit_session
RegisterSession(session_id) ==
    /\ session_id \notin active_livekit_sessions
    /\ active_livekit_sessions' = active_livekit_sessions \cup {session_id}
    /\ UNCHANGED <<now, db, memory_help_requests, next_request_id, timed_out_requests,
                   sweep_pc, kb_db, memory_knowledge_items, faiss_index,
                   knowledge_item_ids_for_faiss, index_file, callbacks_map,
                   callbacks_file, peer_callbacks_map, rebuilds, pushed, resp>>

UnregisterSession(session_id) ==
    /\ session_id \in active_livekit_sessions
    /\ active_livekit_sessions' = active_livekit_sessions \ {session_id}
    /\ UNCHANGED <<now, db, memory_help_requests, next_request_id, timed_out_requests,
                   sweep_pc, kb_db, memory_knowledge_items, faiss_index,
                   knowledge_item_ids_for_faiss, index_file, callbacks_map,
                   callbacks_file, peer_callbacks_map, rebuilds, pushed, resp>>

\* callback_registry.remove(request_id), called by itself
Remove(id, f) ==
    LET W == RegistryRemove(World, id, f) IN
    /\ Commit(W)
    /\ resp' = Response("remove", id, 200, "none", W)
    /\ UNCHANGED <<now, timed_out_requests, sweep_pc, active_livekit_sessions,
                   peer_callbacks_map, rebuilds>>

\* The agent process starts again: the module-level CallbackRegistry() loads
\* the file and active_livekit_sessions is empty.
Restart(f) ==
    /\ callbacks_map' = LoadFromDisk(callbacks_file, f)
    /\ active_livekit_sessions' = {}
    /\ resp' = Response("restart", 0, 0, "none", World)
    /\ UNCHANGED <<now, db, memory_help_requests, next_request_id, timed_out_requests,
                   sweep_pc, kb_db, memory_knowledge_items, faiss_index,
                   knowledge_item_ids_for_faiss, index_file, callbacks_file,
                   peer_callbacks_map, rebuilds, pushed>>

\* A second agent process (one per LiveKit job) has a CallbackRegistry of its
\* own over the same callback_registry.json: its register, remove and start.
PeerRegister(id, session_id, f) ==
    LET W == RegistryRegister([World EXCEPT !.map = peer_callbacks_map], id, session_id, f) IN
    /\ peer_callbacks_map' = W.map
    /\ callbacks_file' = W.mapfile
    /\ resp' = Response("peer_register", id, 200, "none", W)
    /\ UNCHANGED <<now, db, memory_help_requests, next_request_id, timed_out_requests,
                   sweep_pc, kb_db, memory_knowledge_items, faiss_index,
                   knowledge_item_ids_for_faiss, index_file, callbacks_map,
                   active_livekit_sessions, pushed, rebuilds>>

PeerRemove(id, f) ==
    LET W == RegistryRemove([World EXCEPT !.map = peer_callbacks_map], id, f) IN
    /\ peer_callbacks_map' = W.map
    /\ callbacks_file' = W.mapfile
    /\ resp' = Response("peer_remove", id, 200, "none", W)
    /\ UNCHANGED <<now, db, memory_help_requests, next_request_id, timed_out_requests,
                   sweep_pc, kb_db, memory_knowledge_items, faiss_index,
                   knowledge_item_ids_for_faiss, index_file, callbacks_map,
                   active_livekit_sessions, pushed, rebuilds>>

PeerRestart(f) ==
    /\ peer_callbacks_map' = LoadFromDisk(callbacks_file, f)
    /\ resp' = Response("peer_restart", 0, 0, "none", World)
    /\ UNCHANGED <<now, db, memory_help_requests, next_request_id, timed_out_requests,
                   sweep_pc, kb_db, memory_knowledge_items, faiss_index,
                   knowledge_item_ids_for_faiss, index_file, callbacks_map,
                   callbacks_file, active_livekit_sessions, pushed, rebuilds>>

\* add_to_knowledge_base(question, answer), called by itself
AddKnowledge(q, a, ctx, f, limit) ==
    LET W == add_to_knowledge_base(World, q, a, ctx, f) IN
    /\ Len(W.kb) <= limit
    /\ Cardinality(DOMAIN W.memkb) <= limit
    /\ Commit(W)
    /\ resp' = Response("add_knowledge", 0, 200, "none", W)
    /\ UNCHANGED <<now, timed_out_requests, sweep_pc, active_livekit_sessions, peer_callbacks_map, rebuilds>>

\* POST /api/knowledge/query
Query(q, f) ==
    LET r == api_knowledge_query(World, q, f) IN
    /\ resp' = [op |-> "query", id |-> r.id, code |-> 200, ret |-> r.match_type,
                upserts |-> 0, posts |-> <<>>, question |-> q, found |-> r.found,
                answer |-> r.answer, score |-> r.score, failed |-> f]
    /\ UNCHANGED <<now, db, memory_help_requests, next_request_id, timed_out_requests,
                   sweep_pc, kb_db, memory_knowledge_items, faiss_index,
                   knowledge_item_ids_for_faiss, index_file, callbacks_map,
                   callbacks_file, peer_callbacks_map, rebuilds, active_livekit_sessions, pushed>>

\* the agent's tool request_help(question)
RequestHelp(q, session_id, knet, snet, f) ==
    LET r == request_help(World, q, session_id, knet, snet, f) IN
    /\ Commit(r.w)
    /\ resp' = [op |-> "request_help", id |-> 0, code |-> 0, ret |-> r.ret,
                upserts |-> 0, posts |-> <<>>, question |-> q, answer |-> r.answer,
                sync |-> r.sync, net |-> knet, failed |-> f]
    /\ UNCHANGED <<now, timed_out_requests, sweep_pc, active_livekit_sessions,
                   peer_callbacks_map, rebuilds>>

\* the supervisor process is stopped and started again
RestartApp(f) ==
    LET W == create_app(World, f)
        fresh == [World EXCEPT !.mem = <<>>, !.memkb = <<>>]
        ret == IF "embed" \in f THEN "none"
               ELSE IF IndexFileUsable(sync_memory_storage_from_db(fresh, f), TRUE, f)
               THEN "loaded" ELSE "built"
    IN
    /\ Commit(W)
    /\ timed_out_requests' = {}
    /\ sweep_pc' = "idle"
    /\ resp' = Response("restart_app", 0, 0, ret, W)
    /\ UNCHANGED <<now, active_livekit_sessions, peer_callbacks_map, rebuilds>>

\* Two request threads inside add_to_knowledge_base at once.  A thread's call
\* is taken in the steps at which another thread can run in between: the
\* upsert and its commit (lines 244-260), the query for the items to index
\* with their embedding (99, 126), the assignment of faiss_index (139-140),
\* and the assignment of knowledge_item_ids_for_faiss with the write of the
\* file, which writes the index the global names at that moment (141-154).
WriteStore(w, q, a, limit) ==
    LET W == AddToDbKnowledge(World, q, a) IN
    /\ rebuilds[w].pc = "idle"
    /\ Len(W.kb) <= limit
    /\ kb_db' = W.kb
    /\ memory_knowledge_items' = W.memkb
    /\ rebuilds' = [rebuilds EXCEPT ![w].pc = "stored"]
    /\ resp' = Response("write_store", w, 0, "none", World)
    /\ UNCHANGED <<now, db, memory_help_requests, next_request_id, timed_out_requests,
                   sweep_pc, faiss_index, knowledge_item_ids_for_faiss, index_file,
                   callbacks_map, callbacks_file, peer_callbacks_map,
                   active_livekit_sessions, pushed>>

WriteReadItems(w) ==
    /\ rebuilds[w].pc = "stored"
    /\ rebuilds' = [rebuilds EXCEPT ![w] =
                      [pc |-> "read",
                       items |-> GetAllKnowledgeItemsForIndexing(World, TRUE, {})]]
    /\ resp' = Response("write_read", w, 0, "none", World)
    /\ UNCHANGED <<now, db, memory_help_requests, next_request_id, timed_out_requests,
                   sweep_pc, kb_db, memory_knowledge_items, faiss_index,
                   knowledge_item_ids_for_faiss, index_file, callbacks_map,
                   callbacks_file, peer_callbacks_map, active_livekit_sessions, pushed>>

WriteActivateIndex(w) ==
    LET items == rebuilds[w].items IN
    /\ rebuilds[w].pc = "read"
    /\ faiss_index' = [present |-> TRUE,
                       vecs |-> [i \in 1..Len(items) |-> items[i].question]]
    /\ rebuilds' = [rebuilds EXCEPT ![w].pc = "indexed"]
    /\ resp' = Response("write_index", w, 0, "none", World)
    /\ UNCHANGED <<now, db, memory_help_requests, next_request_id, timed_out_requests,
                   sweep_pc, kb_db, memory_knowledge_items,
                   knowledge_item_ids_for_faiss, index_file, callbacks_map,
                   callbacks_file, peer_callbacks_map, active_livekit_sessions, pushed>>

WriteActivateIds(w) ==
    LET items == rebuilds[w].items IN
    /\ rebuilds[w].pc = "indexed"
    /\ knowledge_item_ids_for_faiss' = [i \in 1..Len(items) |-> items[i].id]
    /\ index_file' = faiss_index
    /\ rebuilds' = [rebuilds EXCEPT ![w] = NotBuilding]
    /\ resp' = Response("write_ids", w, 200, "none", World)
    /\ UNCHANGED <<now, db, memory_help_requests, next_request_id, timed_out_requests,
                   sweep_pc, kb_db, memory_knowledge_items, faiss_index,
                   callbacks_map, callbacks_file, peer_callbacks_map,
                   active_livekit_sessions, pushed>>

\* the merge loop of api_knowledge_query run on two candidate lists
Merge(keyword, semantic) ==
    /\ resp' = [op |-> "merge", id |-> 0, code |-> 200, ret |-> "none",
                upserts |-> 0, posts |-> <<>>, keyword |-> keyword,
                semantic |-> semantic,
                merged |-> MergeCandidates(<<>>, keyword \o semantic)]
    /\ UNCHANGED <<now, db, memory_help_requests, next_request_id, timed_out_requests,
                   sweep_pc, kb_db, memory_knowledge_items, faiss_index,
                   knowledge_item_ids_for_faiss, index_file, callbacks_map,
                   callbacks_file, peer_callbacks_map, rebuilds,
                   active_livekit_sessions, pushed>>

\* ------------------------------------------------------------ specifications
\* The help request registry: requests without a webhook, the clock at the
\* start and past the timeout, every database failure point.
Init == InitWith(NumDbRows)

Next ==
    \/ Tick({31}, MaxTime)
    \/ \E ctx \in BOOLEAN : Create(1, None, ctx, MaxMock)
    \/ \E id \in RequestIds(NumDbRows), a \in FormAnswers, ctx \in BOOLEAN, f \in DbFailures :
          Resolve(id, a, ctx, f, "ok", "ok")
    \/ \E id \in RequestIds(NumDbRows), ctx \in BOOLEAN, f \in DbFailures :
          MarkUnresolved(id, ctx, f)
    \/ \E f \in DbFailures : SweepQuery(f)
    \/ \E f \in DbFailures : SweepCommit(f)

Spec == Init /\ [][Next]_vars

\* Delivery of answers: requests created with the agent's webhook URL, the
\* callback registry, the agent's live sessions, and every outcome of the POST.
InitDelivery == InitWith(DeliveryRows)

NextDelivery ==
    \/ \E ctx \in BOOLEAN : Create(1, AGENT_WEBHOOK_URL, ctx, DeliveryMocks)
    \/ \E id \in RequestIds(DeliveryRows), s \in Sessions : Register(id, s, {})
    \/ \E s \in Sessions : RegisterSession(s)
    \/ \E s \in Sessions : UnregisterSession(s)
    \/ \E id \in RequestIds(DeliveryRows), a \in Answers, ctx \in BOOLEAN,
          net \in {"ok", "down"}, reply \in {"ok", "raises"} :
          Resolve(id, a, ctx, {}, net, reply)

SpecDelivery == InitDelivery /\ [][NextDelivery]_vars

\* The knowledge store and the hybrid query: four question texts, items
\* written with and without an app context, a failing table, and queries
\* with the embedding model working or failing.
KnowledgeQuestions == {1, 2, 3, 4}

InitKnowledge == InitWith(0)

NextKnowledge ==
    \/ \E q \in KnowledgeQuestions, a \in Answers, ctx \in BOOLEAN,
          f \in {{}, {"kb"}} :
          AddKnowledge(q, a, ctx, f, MaxItems)
    \/ \E q \in KnowledgeQuestions, f \in {{}, {"embed"}} : Query(q, f)

SpecKnowledge == InitKnowledge /\ [][NextKnowledge]_vars

\* The vector index: items written with and without an app context while the
\* embedding model or the write of the index file may fail, queries with the
\* embedding or the index search working or failing, and the agent's tool
\* asking over a connection that works, is down or times out.
IndexQuestions == {1, 4}

InitIndex == InitWith(0)

NextIndex ==
    \/ \E q \in IndexQuestions, ctx \in BOOLEAN, f \in {{}} \cup IndexFailures :
          AddKnowledge(q, "$30", ctx, f, MaxItems)
    \/ \E q \in IndexQuestions, f \in QueryFailures : Query(q, f)
    \/ \E q \in IndexQuestions, knet \in {"ok", "down", "timeout"},
          snet \in {"ok", "down"}, f \in QueryFailures \cup {{"kb"}} :
          RequestHelp(q, "agentA", knet, snet, f)

SpecIndex == InitIndex /\ [][NextIndex]_vars

\* The timeout sweep over two rows of different age.  Row 1 was created at
\* minute 0 and row 2 at minute 25; the process starts at minute 25 and the
\* clock moves in steps of 10, so a row is seen younger than the timeout, at
\* exactly the timeout, and older.  The job's query and its commit fall in
\* the same minute.
SweepStep == 10
SecondRowCreatedAt == 25

InitSweep ==
    /\ now = SecondRowCreatedAt
    /\ db = <<Row(1, 0), Row(1, SecondRowCreatedAt)>>
    /\ memory_help_requests = [i \in 1..2 |-> MirrorOf(i, db[i])]
    /\ next_request_id = 1
    /\ timed_out_requests = {}
    /\ sweep_pc = "idle"
    /\ kb_db = <<>>
    /\ memory_knowledge_items = <<>>
    /\ faiss_index = NoIndex
    /\ knowledge_item_ids_for_faiss = <<>>
    /\ index_file = NoIndex
    /\ callbacks_map = <<>>
    /\ callbacks_file = <<>>
    /\ peer_callbacks_map = <<>>
    /\ rebuilds = [w \in Writers |-> NotBuilding]
    /\ active_livekit_sessions = {}
    /\ pushed = <<>>
    /\ resp = [op |-> "start", id |-> 0, code |-> 0, ret |-> "none",
               upserts |-> 0, posts |-> <<>>]

NextSweep ==
    \/ sweep_pc = "idle" /\ Tick({SweepStep}, MaxSweepTime)
    \/ \E id \in 1..2 : Resolve(id, "$30", TRUE, {}, "ok", "ok")
    \/ \E id \in 1..2 : MarkUnresolved(id, TRUE, {})
    \/ \E f \in {{}, {"get"}} : SweepQuery(f)
    \/ \E f \in {{}, {"commit"}} : SweepCommit(f)

SpecSweep == InitSweep /\ [][NextSweep]_vars

\* The callback registry by itself: two request ids, the agent process and a
\* second one over the same file, a file that cannot be written or read, and
\* restarts of both processes.
RegistryIds == {1, 2}

InitRegistry == InitWith(0)

NextRegistry ==
    \/ \E id \in RegistryIds, s \in Sessions, f \in SaveFailures : Register(id, s, f)
    \/ \E id \in RegistryIds, f \in SaveFailures : Remove(id, f)
    \/ \E f \in LoadFailures : Restart(f)
    \/ \E id \in RegistryIds : PeerRegister(id, "agentB", {})
    \/ \E id \in RegistryIds : PeerRemove(id, {})
    \/ PeerRestart({})

SpecRegistry == InitRegistry /\ [][NextRegistry]_vars

\* The index file across restarts of the supervisor process: items written
\* with and without an app context while the knowledge table or the write of
\* the index file may fail, and restarts in which a table query, the embedding
\* model or the read of the index file may fail.
ReloadQuestions == {1, 2, 4}
ReloadFailures == {{}, {"get"}, {"kb"}, {"embed"}, {"load"}}

InitReload == InitWith(0)

NextReload ==
    \/ \E q \in ReloadQuestions, ctx \in BOOLEAN, f \in {{}, {"kb"}, {"write"}} :
          AddKnowledge(q, "$30", ctx, f, MaxItems)
    \/ \E q \in ReloadQuestions : Query(q, {})
    \/ \E f \in ReloadFailures : RestartApp(f)

SpecReload == InitReload /\ [][NextReload]_vars

\* Two request threads that write knowledge items at the same time, and
\* queries between their steps.
InitWriters == InitWith(0)

NextWriters ==
    \/ \E w \in Writers, q \in IndexQuestions : WriteStore(w, q, "$30", MaxItems)
    \/ \E w \in Writers : WriteReadItems(w)
    \/ \E w \in Writers : WriteActivateIndex(w)
    \/ \E w \in Writers : WriteActivateIds(w)
    \/ \E q \in IndexQuestions : Query(q, {})

SpecWriters == InitWriters /\ [][NextWriters]_vars

\* The merge of the hybrid query over every pair of candidate lists the two
\* tiers can hand it for two items: the keyword tier gives nothing, the one
\* exact match, or the overlap matches at or above KEYWORD_SCORE_THRESHOLD,
\* best first; the semantic tier gives the matches at or above
\* SEMANTIC_SCORE_THRESHOLD, best first, an item at most once in each list.
MergeIds == {1, 2}
OverlapScores == {KEYWORD_SCORE_THRESHOLD, 100}
SemanticScores == {SEMANTIC_SCORE_THRESHOLD, 90, 100}

CandidateLists(C) ==
    {<<>>} \cup {<<c>> : c \in C}
    \cup {<<p[1], p[2]>> : p \in {x \in C \X C : x[1].id # x[2].id /\ x[2].score <= x[1].score}}

KeywordLists ==
    {<<[id |-> i, score |-> 100, match_type |-> "exact_keyword"]>> : i \in MergeIds}
    \cup CandidateLists([id : MergeIds, score : OverlapScores, match_type : {"keyword_overlap"}])

SemanticLists ==
    CandidateLists([id : MergeIds, score : SemanticScores, match_type : {"semantic"}])

InitMerge == InitWith(0)

NextMerge == \E keyword \in KeywordLists, semantic \in SemanticLists : Merge(keyword, semantic)

SpecMerge == InitMerge /\ [][NextMerge]_vars

\* The agent's registration of a binding against the supervisor's resolve:
\* one session, a working connection and a reply that is generated.  The
\* agent registers the id as soon as it has the response of the route
\* (agent.py 225-233) and its session is started by the job (271-314), so
\* both are bound to happen; nothing makes the supervisor resolve again.
RaceIds == RequestIds(DeliveryRows)

InitRace == InitWith(DeliveryRows)

NextRace ==
    \/ \E ctx \in BOOLEAN : Create(1, AGENT_WEBHOOK_URL, ctx, DeliveryMocks)
    \/ RegisterSession("agentA")
    \/ \E id \in RaceIds : Register(id, "agentA", {})
    \/ \E id \in RaceIds, a \in Answers, ctx \in BOOLEAN :
          Resolve(id, a, ctx, {}, "ok", "ok")

SpecRace ==
    /\ InitRace
    /\ [][NextRace]_vars
    /\ WF_vars(RegisterSession("agentA"))
    /\ \A id \in RaceIds : WF_vars(Register(id, "agentA", {}))

\* ------------------------------------------------------------------- claims
Terminal(status) == status \in {"resolved", "unresolved"}

\* C1: once a help request is resolved or unresolved, no step changes its
\* status: not in its table row, not in the object held in memory.
C1_TerminalAbsorbing ==
    [][/\ \A id \in DOMAIN db :
            Terminal(db[id].status) => db'[id].status = db[id].status
       /\ \A id \in DOMAIN memory_help_requests :
            (/\ Terminal(memory_help_requests[id].status)
             /\ memory_help_requests'[id].kind = memory_help_requests[id].kind)
            => memory_help_requests'[id].status = memory_help_requests[id].status]_vars

\* C2: a resolve of a request that is already resolved is refused: it does not
\* answer with success, the stored answer and resolved_at stay as they were,
\* and it makes no knowledge upsert and no webhook POST.
C2_ResolveOfResolvedRefused ==
    [][\A id \in RequestIds(NumDbRows), a \in Answers :
          (/\ id \in DOMAIN db
           /\ db[id].status = "resolved"
           /\ Resolve(id, a, TRUE, {}, "ok", "ok"))
          => /\ resp'.code # 200
             /\ db'[id] = db[id]
             /\ resp'.upserts = 0
             /\ resp'.posts = <<>>]_vars

\* C3: a markUnresolved of a request that is not pending is refused: it does
\* not answer with success and the row's status, answer and resolved_at stay.
C3_MarkOfTerminalRefused ==
    [][\A id \in RequestIds(NumDbRows) :
          (/\ id \in DOMAIN db
           /\ Terminal(db[id].status)
           /\ MarkUnresolved(id, TRUE, {}))
          => /\ resp'.code # 200
             /\ db'[id] = db[id]]_vars

\* C4: a sweep that read a request as pending and a resolve of that request do
\* not both succeed: when the sweep commits its write, every request it is
\* about to mark is still pending.
C4_SweepAndResolveExclude ==
    [][(SweepCommit({}) /\ resp'.code = 200)
          => \A id \in timed_out_requests : db[id].status = "pending"]_vars

\* C5: a successful resolve of a request whose id is bound to a session that
\* is live, over a working connection, pushes the answer into that session
\* once and leaves the id without a binding.
C5_DeliveredOnceThenUnbound ==
    [][\A id \in RequestIds(DeliveryRows), a \in Answers, ctx \in BOOLEAN :
          (/\ id \in DOMAIN callbacks_map
           /\ callbacks_map[id] \in active_livekit_sessions
           /\ Resolve(id, a, ctx, {}, "ok", "ok")
           /\ resp'.code = 200)
          => /\ pushed' = Append(pushed, [session |-> callbacks_map[id],
                                          request_id |-> id, answer |-> a])
             /\ id \notin DOMAIN callbacks_map']_vars

\* C6: replies are only ever added at the end of the record, and a reply
\* added by a step went into the session that was bound to its request id
\* when the step began, that session was live, the step was the resolve of
\* that id, and the text is the answer that resolve stored for the id.
C6_PushedToBoundSession ==
    [][/\ Len(pushed') >= Len(pushed)
       /\ SubSeq(pushed', 1, Len(pushed)) = pushed
       /\ \A i \in (Len(pushed) + 1)..Len(pushed') :
            LET e == pushed'[i] IN
            /\ e.request_id \in DOMAIN callbacks_map
            /\ callbacks_map[e.request_id] = e.session
            /\ e.session \in active_livekit_sessions
            /\ resp'.op = "resolve" /\ resp'.id = e.request_id
            /\ e.request_id \in DOMAIN memory_help_requests'
            /\ memory_help_requests'[e.request_id].answer = e.answer]_vars

\* a reply was pushed for one id while another id was bound to another session
C6_Witness ==
    /\ Len(pushed) = 1
    /\ \E id \in DOMAIN callbacks_map :
          /\ id # pushed[1].request_id
          /\ callbacks_map[id] # pushed[1].session
          /\ callbacks_map[id] \in active_livekit_sessions

\* C7: after POST /resolve/<id> answers with success, the hybrid query for the
\* text of the resolved request finds an exact match carrying the answer given.
C7_LearnedAfterResolve ==
    [][\A id \in RequestIds(NumDbRows), a \in Answers, f \in DbFailures :
          (Resolve(id, a, TRUE, f, "ok", "ok") /\ resp'.code = 200)
          => LET found == api_knowledge_query(World', memory_help_requests'[id].question, {})
             IN  /\ found.found
                 /\ found.match_type = "exact_keyword"
                 /\ found.answer = a]_vars

\* C8: no row of help_requests is committed as resolved while the knowledge
\* table lacks the row's question with the row's answer.
C8_ResolvedImpliesKnowledge ==
    \A id \in DOMAIN db :
        db[id].status = "resolved"
        => \E i \in 1..Len(kb_db) :
              kb_db[i] = [question |-> db[id].question, answer |-> db[id].answer]

\* C9: a resolve that committed the row as resolved answers with success,
\* whatever became of the webhook POST.
C9_CommittedResolveSucceeds ==
    [][\A id \in RequestIds(DeliveryRows), a \in Answers, ctx \in BOOLEAN,
          net \in {"ok", "down"}, reply \in {"ok", "raises"} :
          (/\ id \in DOMAIN db
           /\ Resolve(id, a, ctx, {}, net, reply)
           /\ db'[id] # db[id])
          => /\ db'[id].status = "resolved"
             /\ resp'.code = 200]_vars

\* C10: a request whose status is resolved, as a table row or as an object in
\* memory, has an answer that is not blank and a resolved_at that is set.
C10_ResolvedHasAnswerAndTime ==
    /\ \A id \in DOMAIN db :
          db[id].status = "resolved"
          => db[id].answer \notin {None, "", " "} /\ db[id].resolved_at # NoTime
    /\ \A id \in DOMAIN memory_help_requests :
          memory_help_requests[id].status = "resolved"
          => /\ memory_help_requests[id].answer \notin {None, "", " "}
             /\ memory_help_requests[id].resolved_at # NoTime

\* a row and an object in memory are resolved, after a blank answer was refused
C10_Witness ==
    /\ \E id \in DOMAIN db : db[id].status = "resolved"
    /\ \E id \in DOMAIN memory_help_requests : memory_help_requests[id].status = "resolved"

\* C11: a request that is pending or unresolved, as a table row or as an
\* object in memory, has no answer and no resolved_at.
C11_OnlyResolvedHasAnswer ==
    /\ \A id \in DOMAIN db :
          db[id].status # "resolved"
          => db[id].answer = None /\ db[id].resolved_at = NoTime
    /\ \A id \in DOMAIN memory_help_requests :
          memory_help_requests[id].status # "resolved"
          => /\ memory_help_requests[id].answer = None
             /\ memory_help_requests[id].resolved_at = NoTime

\* C12: a create that succeeds returns a pending request under an id that no
\* table row and no object in memory has, and that is greater than all of them.
C12_CreateIssuesFreshId ==
    [][\A ctx \in BOOLEAN :
          (Create(1, None, ctx, MaxMock) /\ resp'.code = 201)
          => /\ memory_help_requests'[resp'.id].status = "pending"
             /\ \A id \in DOMAIN db \cup DOMAIN memory_help_requests : id < resp'.id]_vars

\* C13: after POST /resolve/<id> answers with success, the knowledge_base
\* table has an item with the question of the request and the answer given.
C13_ResolveStoresKnowledge ==
    [][\A id \in RequestIds(NumDbRows), a \in Answers, f \in DbFailures :
          (Resolve(id, a, TRUE, f, "ok", "ok") /\ resp'.code = 200)
          => \E i \in 1..Len(kb_db') :
                kb_db'[i] = [question |-> memory_help_requests'[id].question,
                             answer |-> a]]_vars

\* C14: no two items of the knowledge_base table have the same question, and
\* no two items held in memory_knowledge_items have the same question.
C14_UniqueQuestions ==
    /\ \A i, j \in 1..Len(kb_db) :
          kb_db[i].question = kb_db[j].question => i = j
    /\ \A i, j \in DOMAIN memory_knowledge_items :
          memory_knowledge_items[i].question = memory_knowledge_items[j].question
          => i = j

\* C15: a sweep that commits changes exactly the rows that are pending and
\* were created more than the timeout before now, which become unresolved;
\* every other row is left as it was.
C15_SweepMarksExactlyOverdue ==
    [][(SweepCommit({}) /\ resp'.code = 200)
          => \A id \in DOMAIN db :
                IF /\ db[id].status = "pending"
                   /\ db[id].created_at < now - REQUEST_TIMEOUT_MINUTES
                THEN db'[id].status = "unresolved"
                ELSE db'[id] = db[id]]_vars

\* C16: when something fails during a sweep, at most one of the requests the
\* sweep found does not end the sweep as unresolved.
C16_SweepContinuesOnError ==
    [][\A f \in {{}, {"commit"}} :
          SweepCommit(f)
          => Cardinality({id \in timed_out_requests :
                             db'[id].status # "unresolved"}) <= 1]_vars

\* C17: a resolve for an id that names no table row and no object in memory
\* answers not found and changes no request, no knowledge item, no index
\* state, no callback binding, and sends no webhook.
C17_ResolveUnknownChangesNothing ==
    [][\A id \in RequestIds(NumDbRows), a \in Answers, ctx \in BOOLEAN, f \in DbFailures :
          (/\ id \notin DOMAIN db
           /\ id \notin DOMAIN memory_help_requests
           /\ Resolve(id, a, ctx, f, "ok", "ok"))
          => /\ resp'.code = 404
             /\ resp'.upserts = 0
             /\ resp'.posts = <<>>
             /\ UNCHANGED <<db, memory_help_requests, next_request_id, kb_db,
                            memory_knowledge_items, faiss_index,
                            knowledge_item_ids_for_faiss, index_file,
                            callbacks_map, callbacks_file, pushed>>]_vars

\* a resolve of an unknown id was answered 404 while a knowledge item was stored
C17_Witness ==
    /\ resp.op = "resolve"
    /\ resp.code = 404
    /\ resp.id \notin DOMAIN db
    /\ resp.id \notin DOMAIN memory_help_requests
    /\ kb_db # <<>>

\* C18: markUnresolved, whatever it answers, leaves the knowledge table, the
\* knowledge items in memory, the index, its id list and its file as they were.
C18_MarkLeavesKnowledgeAlone ==
    [][\A id \in RequestIds(NumDbRows), ctx \in BOOLEAN, f \in DbFailures :
          MarkUnresolved(id, ctx, f)
          => /\ resp'.upserts = 0
             /\ UNCHANGED <<kb_db, memory_knowledge_items, faiss_index,
                            knowledge_item_ids_for_faiss, index_file>>]_vars

\* a request was marked unresolved while a knowledge item and an index existed
C18_Witness ==
    /\ resp.op = "unresolved"
    /\ resp.code = 200
    /\ kb_db # <<>>
    /\ faiss_index.present

\* C19: a query whose text is the question of a stored item is answered found,
\* exact, score 1.0, with that item.
C19_ExactQuestionFindsItsItem ==
    [][\A q \in KnowledgeQuestions, f \in QueryFailures :
          (Query(q, f) /\ \E i \in 1..Len(kb_db) : kb_db[i].question = q)
          => /\ resp'.found
             /\ resp'.ret = "exact_keyword"
             /\ resp'.score = 100
             /\ kb_db[resp'.id].question = q]_vars

\* C20: the query answers found exactly when there is a candidate and the one
\* ranked first, exact before the rest and then by score, scores at least the
\* final threshold; found carries that candidate, not found carries its score,
\* or 0 when there is no candidate.
C20_FoundIffTopAboveThreshold ==
    [][\A q \in KnowledgeQuestions, f \in QueryFailures :
          Query(q, f)
          => LET final == MergeCandidates(<<>>, KeywordMatches(World, q)
                                                 \o SemanticMatches(World, q, f))
                 tops == {i \in 1..Len(final) :
                            \A j \in 1..Len(final) : RankOf(final[j]) <= RankOf(final[i])}
             IN  IF final = <<>>
                 THEN ~resp'.found /\ resp'.score = 0
                 ELSE /\ resp'.found <=> (\E i \in tops : final[i].score >= FINAL_RESULT_THRESHOLD)
                      /\ \E i \in tops :
                            /\ resp'.score = final[i].score
                            /\ resp'.found => /\ resp'.id = final[i].id
                                              /\ resp'.ret = final[i].match_type
                                              /\ resp'.answer = kb_db[final[i].id].answer]_vars

\* a query was answered found from a candidate that is not an exact match
C20_Witness ==
    /\ resp.op = "query"
    /\ resp.found
    /\ resp.ret = "semantic"
    /\ Len(kb_db) = MaxItems

\* C21: a query made while the embedding fails, the index search raises, or
\* the index is absent or empty gets an empty list from the semantic search,
\* is answered with 200, and its answer is the one the exact and keyword
\* tiers give by themselves.
C21_DegradesToKeywordTiers ==
    [][\A q \in KnowledgeQuestions, f \in QueryFailures :
          (/\ Query(q, f)
           /\ f # {} \/ ~faiss_index.present \/ Len(faiss_index.vecs) = 0)
          => LET kw == KeywordMatches(World, q) IN
             /\ search_knowledge_semantic(World, q, SEMANTIC_SEARCH_TOP_K, f) = <<>>
             /\ resp'.code = 200
             /\ resp'.found <=> kw # <<>>
             /\ kw = <<>> => resp'.score = 0
             /\ kw # <<>> => /\ resp'.id = kw[1].id
                             /\ resp'.ret = kw[1].match_type
                             /\ resp'.score = kw[1].score
                             /\ resp'.answer = kb_db[kw[1].id].answer]_vars

\* a query whose embedding or index search failed, with an index in place,
\* was answered found by the exact tier
C21_Witness ==
    /\ resp.op = "query"
    /\ resp.failed # {}
    /\ faiss_index.present
    /\ resp.found
    /\ resp.ret = "exact_keyword"

\* C22: a register of an id makes the lookup of that id return the token just
\* given, whatever was bound before, and a remove makes it return nothing;
\* both leave the lookup of every other id as it was.
C22_RegisterIsUpsert ==
    [][/\ \A id \in RegistryIds, s \in Sessions, f \in SaveFailures :
            Register(id, s, f)
            => /\ GetSessionForRequest(World', id) = s
               /\ \A j \in RegistryIds \ {id} :
                     GetSessionForRequest(World', j) = GetSessionForRequest(World, j)
       /\ \A id \in RegistryIds, f \in SaveFailures :
            Remove(id, f)
            => /\ GetSessionForRequest(World', id) = None
               /\ \A j \in RegistryIds \ {id} :
                     GetSessionForRequest(World', j) = GetSessionForRequest(World, j)]_vars

\* a register replaced the token of an id bound before (the file, not written
\* this time, still has the earlier token) while the other id stayed bound
C22_Witness ==
    /\ resp.op = "register"
    /\ resp.id = 1
    /\ GetSessionForRequest(World, 1) = "agentB"
    /\ 1 \in DOMAIN callbacks_file /\ callbacks_file[1] = "agentA"
    /\ GetSessionForRequest(World, 2) = "agentA"

\* C25: a register or remove of one id, by either process and with the file
\* written, leaves in the file the binding of every other id that the
\* processes registered and did not remove: no other id's binding leaves the
\* file or changes in it.
C25_OtherKeysKeptInFile ==
    [][\A id \in RegistryIds :
          (\/ \E s \in Sessions : Register(id, s, {}) \/ PeerRegister(id, s, {})
           \/ Remove(id, {})
           \/ PeerRemove(id, {}))
          => \A j \in (DOMAIN callbacks_file) \ {id} :
                j \in DOMAIN callbacks_file' /\ callbacks_file'[j] = callbacks_file[j]]_vars

\* C26: a restart that reads the file brings back the bindings the process
\* had: after it, the lookup of every id returns what it returned before.
C26_BindingsSurviveRestart ==
    [][Restart({})
          => \A id \in RegistryIds :
                GetSessionForRequest(World', id) = GetSessionForRequest(World, id)]_vars

\* C23: a binding leaves the registry only in the step of a resolve whose POST
\* the agent answered with 200, and in that step the answer was pushed into
\* the session the id was bound to.
C23_RemovedOnlyAfterPush ==
    [][\A id \in DOMAIN callbacks_map :
          id \notin DOMAIN callbacks_map'
          => /\ resp'.op = "resolve" /\ resp'.id = id
             /\ resp'.posts = <<200>>
             /\ Len(pushed') = Len(pushed) + 1
             /\ pushed'[Len(pushed')].request_id = id
             /\ pushed'[Len(pushed')].session = callbacks_map[id]]_vars

\* a delivery was answered 200, its reply is recorded and its binding is gone
C23_Witness ==
    /\ resp.op = "resolve"
    /\ resp.posts = <<200>>
    /\ resp.id \notin DOMAIN callbacks_map
    /\ pushed # <<>> /\ pushed[Len(pushed)].request_id = resp.id

\* C24: after a delivery for a bound id that the agent answered with 404 (the
\* session is not live) or 500 (the reply raised), the id has no binding.
C24_NoBindingAfterFailedDelivery ==
    [][\A id \in RequestIds(DeliveryRows), a \in Answers, ctx \in BOOLEAN,
          reply \in {"ok", "raises"} :
          (/\ id \in DOMAIN callbacks_map
           /\ Resolve(id, a, ctx, {}, "ok", reply)
           /\ resp'.posts # <<>>
           /\ resp'.posts[1] \in {404, 500})
          => id \notin DOMAIN callbacks_map']_vars

\* C27: one resolve makes at most 3 POST attempts; every attempt but the last
\* failed with a 5xx answer or a network error (0), and when the last one
\* failed that way there were 3.
C27_ThreeAttemptsOn5xxOrNetwork ==
    [][\A id \in RequestIds(DeliveryRows), a \in Answers, ctx \in BOOLEAN,
          net \in {"ok", "down"}, reply \in {"ok", "raises"} :
          Resolve(id, a, ctx, {}, net, reply)
          => LET p == resp'.posts
                 Retried(c) == c = 0 \/ c >= 500
             IN  /\ Len(p) <= 3
                 /\ \A i \in 1..(Len(p) - 1) : Retried(p[i])
                 /\ (p # <<>> /\ Retried(p[Len(p)])) => Len(p) = 3]_vars

\* C28: a delivery for an id without a binding is answered 404 once: one POST,
\* no reply pushed, the registry and its file as they were.
C28_UnboundDeliveryIsTerminal ==
    [][\A id \in RequestIds(DeliveryRows), a \in Answers, ctx \in BOOLEAN,
          reply \in {"ok", "raises"} :
          (/\ id \notin DOMAIN callbacks_map
           /\ Resolve(id, a, ctx, {}, "ok", reply)
           /\ resp'.posts # <<>>)
          => /\ resp'.posts = <<404>>
             /\ UNCHANGED <<pushed, callbacks_map, callbacks_file>>]_vars

\* a delivery for an unbound id was answered 404 while another id was bound
\* to a live session
C28_Witness ==
    /\ resp.op = "resolve"
    /\ resp.posts = <<404>>
    /\ resp.id \notin DOMAIN callbacks_map
    /\ \E id \in DOMAIN callbacks_map : callbacks_map[id] \in active_livekit_sessions

\* C29: request_help returns an answer exactly when its knowledge query went
\* through and was answered found, and then it is the answer stored with the
\* item found, with no help request made; in every other case it returns no
\* answer and has posted a help request to /api/sync-request.
C29_AnswerOnlyWhenFound ==
    [][\A q \in IndexQuestions, knet \in {"ok", "down", "timeout"},
          snet \in {"ok", "down"}, f \in QueryFailures \cup {{"kb"}} :
          RequestHelp(q, "agentA", knet, snet, f)
          => LET r == api_knowledge_query(World, q, f)
                 ok == knet = "ok" /\ "kb" \notin f /\ r.found
             IN  /\ ok => /\ resp'.answer = kb_db[r.id].answer
                           /\ resp'.sync = <<>>
                 /\ ~ok => /\ resp'.answer = None
                            /\ Len(resp'.sync) = 1]_vars

\* the tool asked for a question the table has, the query timed out, and it
\* returned no answer and posted a help request
C29_Witness ==
    /\ resp.op = "request_help"
    /\ resp.net = "timeout"
    /\ \E i \in 1..Len(kb_db) : kb_db[i].question = resp.question
    /\ resp.answer = None
    /\ resp.sync = <<500>>

\* C30: a rebuild that fails at the embedding or at the write of the index
\* file leaves the index that was active, and its id list, as they were.
C30_FailedRebuildKeepsIndex ==
    [][\A q \in IndexQuestions, ctx \in BOOLEAN, f \in IndexFailures :
          (AddKnowledge(q, "$30", ctx, f, MaxItems) /\ faiss_index.present)
          => /\ faiss_index' = faiss_index
             /\ knowledge_item_ids_for_faiss' = knowledge_item_ids_for_faiss]_vars

\* C31: when add_to_knowledge_base returns, an index is active and its id
\* list is the ids of all items of the store written to (the table with an
\* app context, the items in memory without one), in ascending order, the
\* written item among them.
C31_IndexRebuiltWhenWriteReturns ==
    [][\A q \in IndexQuestions, ctx \in BOOLEAN, f \in {{}} \cup IndexFailures :
          AddKnowledge(q, "$30", ctx, f, MaxItems)
          => LET ids == IF ctx THEN [i \in 1..Len(kb_db') |-> i]
                        ELSE SortedSeq(DOMAIN memory_knowledge_items')
                 written == IF ctx
                            THEN {i \in 1..Len(kb_db') : kb_db'[i].question = q}
                            ELSE {i \in DOMAIN memory_knowledge_items' :
                                     memory_knowledge_items'[i].question = q}
             IN  /\ faiss_index'.present
                 /\ knowledge_item_ids_for_faiss' = ids
                 /\ Len(faiss_index'.vecs) = Len(ids)
                 /\ \E i \in written : \E k \in 1..Len(ids) : ids[k] = i]_vars

\* C32: a restart of the supervisor process that loads the persisted index
\* (the file is the index the old process had built, and the new process
\* takes it as it is) leaves the vectors and the position-to-id list as they
\* were, and every question gets the same answer from the query after the
\* restart as before it.
C32_ReloadKeepsMapping ==
    [][(/\ RestartApp({})
        /\ faiss_index.present
        /\ index_file = faiss_index
        /\ resp'.ret = "loaded")
       => /\ faiss_index' = faiss_index
          /\ knowledge_item_ids_for_faiss' = knowledge_item_ids_for_faiss
          /\ \A q \in ReloadQuestions :
                api_knowledge_query(World', q, {}) = api_knowledge_query(World, q, {})]_vars

C34_RebuildsSerialized ==
    (\A w \in Writers : rebuilds[w].pc = "idle") /\ faiss_index.present
    => /\ Len(faiss_index.vecs) = Len(knowledge_item_ids_for_faiss)
       /\ knowledge_item_ids_for_faiss = [i \in 1..Len(kb_db) |-> i]

\* C35: the merge gives every id of the keyword and the semantic candidates
\* exactly one candidate, one of those the tiers gave for that id: the exact
\* match if there is one, and otherwise one of the highest score.
C35_MergeRule ==
    resp.op = "merge"
    => LET given == resp.keyword \o resp.semantic
           merged == resp.merged
       IN  /\ \A i, j \in 1..Len(merged) : merged[i].id = merged[j].id => i = j
           /\ {merged[i].id : i \in 1..Len(merged)} = {given[i].id : i \in 1..Len(given)}
           /\ \A k \in 1..Len(merged) :
                 LET same == {given[i] : i \in {j \in 1..Len(given) : given[j].id = merged[k].id}}
                 IN  /\ merged[k] \in same
                     /\ IF \E c \in same : c.match_type = "exact_keyword"
                        THEN merged[k].match_type = "exact_keyword"
                        ELSE \A c \in same : merged[k].score >= c.score

\* an item with an overlap match of 85 and a semantic match of 90 comes out
\* with the semantic one, next to an item that only the semantic tier gave
C35_Witness ==
    /\ resp.op = "merge"
    /\ resp.keyword = <<[id |-> 1, score |-> 85, match_type |-> "keyword_overlap"]>>
    /\ resp.semantic = <<[id |-> 2, score |-> 100, match_type |-> "semantic"],
                         [id |-> 1, score |-> 90, match_type |-> "semantic"]>>
    /\ resp.merged = <<[id |-> 1, score |-> 90, match_type |-> "semantic"],
                       [id |-> 2, score |-> 100, match_type |-> "semantic"]>>

C37_ResolveEffectsOnce ==
    resp.op = "resolve"
    => /\ resp.upserts <= 1
       /\ Len(resp.posts) <= RETRY_TOTAL + 1

\* C38: a resolve or a mark-unresolved that returns no request to its caller
\* has left every row of help_requests and the knowledge store, table and
\* memory, as they were.
C38_FailureChangesNothing ==
    [][(/\ resp'.op \in {"resolve", "unresolved"}
        /\ resp'.ret = "none")
       => UNCHANGED <<db, kb_db, memory_knowledge_items>>]_vars

\* C39: a request that is both a row of help_requests and a HelpRequest
\* object in memory_help_requests has the same status in both, in every
\* state, also after a sweep whose commit failed.
C39_MirrorAgreesWithTable ==
    \A id \in DOMAIN db \cap DOMAIN memory_help_requests :
        memory_help_requests[id].kind = "HelpRequest"
        => memory_help_requests[id].status = db[id].status

\* C40: in every state and for every id, with or without an app context,
\* get_help_request finds no request exactly when resolve_request would
\* return none, and exactly when mark_request_unresolved would return none.
C40_LookupConsistent ==
    \A id \in RequestIds(NumDbRows), ctx \in BOOLEAN :
        LET unseen == get_help_request(World, id, ctx, {}) = "none"
            resolved == resolve_request(World, id, "$30", ctx, {}, now, "ok", "ok")
            marked == mark_request_unresolved(World, id, ctx, {})
        IN  /\ unseen <=> (resolved.ret = "none")
            /\ unseen <=> (marked.ret = "none")

====
